---- MODULE Spec2Model ----
(***************************************************************************)
(* Ticket validator (src/app.py): validate_csv, process_tickets,           *)
(* get_unique and the Streamlit page main().                               *)
(*                                                                         *)
(* Text is modelled at the level the code inspects it:                     *)
(*   - a cell of free text that the code scans character by character      *)
(*     (short_description, Controlling Object Name) is a sequence of       *)
(*     one-character strings;                                              *)
(*   - an Alarm Text cell is a sequence of words, and str.contains is a    *)
(*     contiguous-subsequence search over it;                              *)
(*   - an Alarm Time cell is the sequence of its fields and separators,    *)
(*     2024-01-02 09:00:00 being <<2024,"-",1,"-",2," ",9,":",0,":",0>>;   *)
(*   - file names and column headers are strings, with lower() and strip() *)
(*     given by tables over the strings that occur.                        *)
(* A nullable value is Null (<<>>) or Some(v) (<<v>>).                     *)
(***************************************************************************)
EXTENDS Integers, Sequences, FiniteSets

VARIABLES daily_file, tickets_file, session_state, page

vars == <<daily_file, tickets_file, session_state, page>>

Null == <<>>
Some(v) == <<v>>
Val(c) == c[1]

(***************************************************************************)
(* Bounds of the model.                                                    *)
(***************************************************************************)
MaxDaily == 2
MaxAlarms == 2

(***************************************************************************)
(* Strings: str.lower, str.strip, str.endswith(".csv") on the names used.  *)
(***************************************************************************)
Lower(s) ==
    CASE s = "DAILY.CSV" -> "daily.csv"
      [] s = "TICKETS.CSV" -> "tickets.csv"
      [] s = "SHORT_DESCRIPTION" -> "short_description"
      [] s = " short_description " -> " short_description "
      [] s = "ALARMS" -> "alarms"
      [] s = "Controlling Object Name" -> "controlling object name"
      [] s = "CONTROLLING OBJECT NAME" -> "controlling object name"
      [] s = "Alarm Time" -> "alarm time"
      [] s = " Alarm Time " -> " alarm time "
      [] s = "Alarm Text" -> "alarm text"
      [] OTHER -> s

Strip(s) ==
    CASE s = " short_description " -> "short_description"
      [] s = " Alarm Time " -> "Alarm Time"
      [] s = " alarm time " -> "alarm time"
      [] OTHER -> s

EndsWithCsv(s) == s \in {"daily.csv", "tickets.csv", "DAILY.CSV", "TICKETS.CSV"}

(***************************************************************************)
(* Character-level text: polars str.strip_chars and                        *)
(* str.extract(r"\)\s*([A-Za-z0-9_]+)").                                   *)
(***************************************************************************)
Whitespace == {" "}
WordChars == {"S", "I", "d", "1", "2", "_"}

Min(S) == CHOOSE x \in S : \A y \in S : x <= y
Max(S) == CHOOSE x \in S : \A y \in S : x >= y

\* the first position >= j of s that is not in class (Len(s)+1 when none)
SkipWhile(s, j, class) ==
    Min({k \in j..(Len(s) + 1) : k = Len(s) + 1 \/ s[k] \notin class})

StripChars(s) ==
    LET keep == {i \in 1..Len(s) : s[i] \notin Whitespace}
    IN IF keep = {} THEN <<>> ELSE SubSeq(s, Min(keep), Max(keep))

\* the capture group of the leftmost match, or Null when nothing matches
ExtractSiteCode(s) ==
    LET matches ==
            {i \in 1..Len(s) :
                /\ s[i] = ")"
                /\ LET w == SkipWhile(s, i + 1, Whitespace)
                   IN w <= Len(s) /\ s[w] \in WordChars}
    IN IF matches = {} THEN Null
       ELSE LET w == SkipWhile(s, Min(matches) + 1, Whitespace)
            IN Some(StripChars(SubSeq(s, w, SkipWhile(s, w, WordChars) - 1)))

(***************************************************************************)
(* Alarm Text: str.contains of the fixed diagnostic.                       *)
(***************************************************************************)
Diagnostic == <<"NE3SWS", "AGENT", "NOT", "RESPONDING", "TO", "REQUESTS">>

Contains(text, needle) ==
    \E i \in 0..(Len(text) - Len(needle)) :
        SubSeq(text, i + 1, i + Len(needle)) = needle

(***************************************************************************)
(* Alarm Time: str.strptime(pl.Datetime, '%Y-%m-%d %H:%M:%S').  A parsed   *)
(* datetime is the naive tuple <<year, month, day, hour, minute, second>>. *)
(***************************************************************************)
MatchesFormat(cell) ==
    /\ Len(cell) = 11
    /\ cell[2] = "-" /\ cell[4] = "-" /\ cell[6] = " "
    /\ cell[8] = ":" /\ cell[10] = ":"
    /\ cell[3] \in 1..12 /\ cell[5] \in 1..31
    /\ cell[7] \in 0..23 /\ cell[9] \in 0..59 /\ cell[11] \in 0..59

StrpTime(cell) == <<cell[1], cell[3], cell[5], cell[7], cell[9], cell[11]>>

RECURSIVE Before(_, _)
\* a is strictly earlier than b
Before(a, b) ==
    /\ a # <<>>
    /\ \/ a[1] < b[1]
       \/ a[1] = b[1] /\ Before(Tail(a), Tail(b))

(***************************************************************************)
(* Uploaded files.  A file has a name, a header line and rows.  header     *)
(* gives, for each column of the export, the header text as written in the *)
(* file (Null: the file has no such column).                               *)
(***************************************************************************)
DailyColumns ==
    {"number", "opened_at", "short_description", "sys_updated_on", "ALARMS"}
TicketsColumns == {"Controlling Object Name", "Alarm Time", "Alarm Text"}

ExactHeader(cols) == [c \in cols |-> Some(c)]

DailyHeaders ==
    LET h == ExactHeader(DailyColumns)
    IN {h,
        [h EXCEPT !["short_description"] = Some("SHORT_DESCRIPTION")],
        [h EXCEPT !["short_description"] = Some(" short_description ")],
        [h EXCEPT !["ALARMS"] = Null],
        [h EXCEPT !["number"] = Null]}

TicketsHeaders ==
    LET h == ExactHeader(TicketsColumns)
    IN {h,
        [h EXCEPT !["Controlling Object Name"] = Some("CONTROLLING OBJECT NAME")],
        [h EXCEPT !["Alarm Time"] = Some(" Alarm Time ")],
        [h EXCEPT !["Alarm Text"] = Null]}

DailyNames == {"daily.csv", "DAILY.CSV", "daily.xlsx"}
TicketsNames == {"tickets.csv", "TICKETS.CSV", "tickets.xlsx"}

\* "(I) S1 d", "(I)S2", "S1 d"
Descriptions ==
    {<<"(", "I", ")", " ", "S", "1", " ", "d">>,
     <<"(", "I", ")", "S", "2">>,
     <<"S", "1", " ", "d">>}

\* " S1", "S2"
ObjectNames == {<<" ", "S", "1">>, <<"S", "2">>}

\* "2024-01-01 10:00:00", "2024-01-02 09:00:00", "2024/01/01 10:00:00"
AlarmTimes ==
    {<<2024, "-", 1, "-", 1, " ", 10, ":", 0, ":", 0>>,
     <<2024, "-", 1, "-", 2, " ", 9, ":", 0, ":", 0>>,
     <<2024, "/", 1, "/", 1, " ", 10, ":", 0, ":", 0>>}

\* an empty Alarm Text cell is read as null; every alarm record carries a
\* Controlling Object Name and an Alarm Time
AlarmTexts ==
    {Some(Diagnostic \o <<"(5)">>), Some(<<"LINK", "FLAP", "DETECTED">>), Null}

SeqsUpTo(S, n) == UNION {[1..k -> S] : k \in 0..n}

DailyRows ==
    {[i \in DOMAIN ds |-> [number |-> i, short_description |-> Some(ds[i])]] :
        ds \in SeqsUpTo(Descriptions, MaxDaily)}

AlarmRecords ==
    [name : {Some(n) : n \in ObjectNames},
     time : AlarmTimes,
     text : AlarmTexts]

TicketsRows == SeqsUpTo(AlarmRecords, MaxAlarms)

SampleDailyRows ==
    <<[number |-> 1,
       short_description |-> Some(<<"(", "I", ")", " ", "S", "1", " ", "d">>)]>>

SampleTicketsRows ==
    <<[name |-> Some(<<" ", "S", "1">>),
       time |-> <<2024, "-", 1, "-", 1, " ", 10, ":", 0, ":", 0>>,
       text |-> Some(Diagnostic \o <<"(5)">>)]>>

\* every row sequence under the exact name and header, and every name and
\* header over one sample row sequence
DailyFiles ==
    {[name |-> "daily.csv", header |-> ExactHeader(DailyColumns), rows |-> r] :
        r \in DailyRows}
    \cup [name : DailyNames, header : DailyHeaders, rows : {SampleDailyRows}]

TicketsFiles ==
    {[name |-> "tickets.csv", header |-> ExactHeader(TicketsColumns), rows |-> r] :
        r \in TicketsRows}
    \cup [name : TicketsNames, header : TicketsHeaders, rows : {SampleTicketsRows}]

(***************************************************************************)
(* validate_csv                                                            *)
(***************************************************************************)
NoError == [reason |-> "none", file |-> "", columns |-> <<>>]
NotCsv(name) == [reason |-> "not_csv", file |-> name, columns |-> <<>>]
MissingColumns(name, cols) == [reason |-> "missing", file |-> name, columns |-> cols]
ColumnNotFound(name, col) ==
    [reason |-> "column_not_found", file |-> name, columns |-> <<col>>]
ParseError(name) == [reason |-> "strptime", file |-> name, columns |-> <<"Alarm Time">>]

\* pl.read_csv(...).lazy() and the rename to stripped column names
ReadCsv(file) ==
    [name |-> file.name,
     columns |-> [c \in DOMAIN file.header |->
                    IF file.header[c] = Null THEN Null
                    ELSE Some(Strip(Val(file.header[c])))],
     rows |-> file.rows]

ColumnNames(df) == {Val(df.columns[c]) : c \in {k \in DOMAIN df.columns : df.columns[k] # Null}}

\* as validate_csv, comparing the column names as written
validate_csv_case_sensitive(uploaded_file, required_cols) ==
    IF ~EndsWithCsv(Lower(uploaded_file.name))
    THEN [ok |-> FALSE, error |-> NotCsv(uploaded_file.name), df |-> Null]
    ELSE LET df == ReadCsv(uploaded_file)
             missing_cols ==
                SelectSeq(required_cols, LAMBDA col : col \notin ColumnNames(df))
         IN IF missing_cols # <<>>
            THEN [ok |-> FALSE,
                  error |-> MissingColumns(uploaded_file.name, missing_cols),
                  df |-> Null]
            ELSE [ok |-> TRUE, error |-> NoError, df |-> Some(df)]

validate_csv(uploaded_file, required_cols) ==
    IF ~EndsWithCsv(Lower(uploaded_file.name))
    THEN [ok |-> FALSE, error |-> NotCsv(uploaded_file.name), df |-> Null]
    ELSE LET df == ReadCsv(uploaded_file)
             col_names == {Lower(Strip(c)) : c \in ColumnNames(df)}
             missing_cols ==
                SelectSeq(required_cols, LAMBDA col : Lower(col) \notin col_names)
         IN IF missing_cols # <<>>
            THEN [ok |-> FALSE,
                  error |-> MissingColumns(uploaded_file.name, missing_cols),
                  df |-> Null]
            ELSE [ok |-> TRUE, error |-> NoError, df |-> Some(df)]

(***************************************************************************)
(* process_tickets                                                         *)
(***************************************************************************)
HasColumn(df, col) == col \in ColumnNames(df)

\* with_columns(... .alias('site_code'))
WithSiteCode(rows) ==
    [i \in DOMAIN rows |->
        [number |-> rows[i].number,
         short_description |-> rows[i].short_description,
         site_code |-> IF rows[i].short_description = Null THEN Null
                       ELSE ExtractSiteCode(Val(rows[i].short_description))]]

\* tickets.select([...]): site_code, START TIME, Alarm Text
Spliced(rows) ==
    [i \in DOMAIN rows |->
        [site_code |-> IF rows[i].name = Null THEN Null
                       ELSE Some(StripChars(Val(rows[i].name))),
         START_TIME |-> Some(StrpTime(rows[i].time)),
         Alarm_Text |-> rows[i].text]]

\* as SortDescending, ascending
SortAscending(frame) ==
    LET n == Len(frame)
        perms == {f \in [1..n -> 1..n] : \A i, j \in 1..n : i # j => f[i] # f[j]}
    IN {[i \in 1..n |-> frame[f[i]]] :
            f \in {g \in perms :
                    \A i \in 1..n : \A j \in 1..n :
                        i < j => ~Before(Val(frame[g[j]].START_TIME),
                                         Val(frame[g[i]].START_TIME))}}

\* sort('START TIME', descending=True): the sort does not maintain the order
\* of equal elements, so every descending arrangement is a possible result
SortDescending(frame) ==
    LET n == Len(frame)
        perms == {f \in [1..n -> 1..n] : \A i, j \in 1..n : i # j => f[i] # f[j]}
    IN {[i \in 1..n |-> frame[f[i]]] :
            f \in {g \in perms :
                    \A i \in 1..n : \A j \in 1..n :
                        i < j => ~Before(Val(frame[g[i]].START_TIME),
                                         Val(frame[g[j]].START_TIME))}}

\* as GroupByFirst, without the aggregation: every record kept
GroupByAll(sorted) ==
    {[site_code |-> sorted[i].site_code,
      Alarm_Text |-> sorted[i].Alarm_Text,
      START_TIME |-> sorted[i].START_TIME] : i \in 1..Len(sorted)}

\* group_by('site_code').agg([Alarm Text .first(), START TIME .first()])
GroupByFirst(sorted) ==
    {LET first == Min({i \in 1..Len(sorted) : sorted[i].site_code = k})
     IN [site_code |-> k,
         Alarm_Text |-> sorted[first].Alarm_Text,
         START_TIME |-> sorted[first].START_TIME] :
        k \in {sorted[i].site_code : i \in 1..Len(sorted)}}

RECURSIVE SetToSeq(_)
SetToSeq(S) ==
    IF S = {} THEN <<>>
    ELSE LET x == CHOOSE y \in S : TRUE IN <<x>> \o SetToSeq(S \ {x})

RECURSIVE LeftJoin(_, _)
\* join(grouped, on='site_code', how='left'): null keys match nothing
LeftJoin(left, right) ==
    IF left = <<>> THEN <<>>
    ELSE LET l == Head(left)
             matches == SetToSeq({r \in right :
                            l.site_code # Null /\ r.site_code = l.site_code})
             joined ==
                IF matches = <<>>
                THEN <<[number |-> l.number,
                        short_description |-> l.short_description,
                        site_code |-> l.site_code,
                        Alarm_Text |-> Null,
                        START_TIME |-> Null]>>
                ELSE [i \in DOMAIN matches |->
                        [number |-> l.number,
                         short_description |-> l.short_description,
                         site_code |-> l.site_code,
                         Alarm_Text |-> matches[i].Alarm_Text,
                         START_TIME |-> matches[i].START_TIME]]
         IN joined \o LeftJoin(Tail(left), right)

\* pl.when(Alarm Text null) ... .alias('VALIDATION')
Validation(alarm_text) ==
    IF alarm_text = Null THEN "NOT IN NMS"
    ELSE IF Contains(Val(alarm_text), Diagnostic) THEN "VALID"
    ELSE "INVALID"

\* as StartTime, without the suppression
StartTimeKept(validation, start_time) == start_time

\* pl.when(VALIDATION == 'INVALID').then(None).otherwise(START TIME)
StartTime(validation, start_time) ==
    IF validation = "INVALID" THEN Null ELSE start_time

\* the two with_columns and the final select
Classify(merged) ==
    [i \in DOMAIN merged |->
        [number |-> merged[i].number,
         short_description |-> merged[i].short_description,
         VALIDATION |-> Validation(merged[i].Alarm_Text),
         START_TIME |-> StartTime(Validation(merged[i].Alarm_Text),
                                  merged[i].START_TIME),
         SITE_CODE |-> merged[i].site_code]]

\* as Unparseable, parsing with strict=False: no value raises
UnparseableNonStrict(trows) == {}

\* str.strptime is strict: the rows whose Alarm Time makes it raise
Unparseable(trows) == {i \in DOMAIN trows : ~MatchesFormat(trows[i].time)}

Failure(daily, tickets, err) ==
    [ok |-> FALSE, error |-> err, daily |-> daily, tickets |-> tickets,
     grouped |-> Null, df |-> Null]

FinalColumns ==
    <<"number", "opened_at", "short_description", "sys_updated_on", "ALARMS">>
SplicedColumns == <<"Controlling Object Name", "Alarm Time", "Alarm Text">>

\* the possible outcomes of process_tickets(daily_file, tickets_file): the
\* classified table, or the exception it raises
process_tickets(daily, tickets) ==
    LET vd == validate_csv(daily, <<"short_description", "ALARMS">>)
        vt == validate_csv(tickets, SplicedColumns)
    IN IF ~vd.ok THEN {Failure(daily, tickets, vd.error)}
       ELSE IF ~vt.ok THEN {Failure(daily, tickets, vt.error)}
       ELSE LET dmiss == SelectSeq(FinalColumns,
                            LAMBDA c : ~HasColumn(Val(vd.df), c))
                tmiss == SelectSeq(SplicedColumns,
                            LAMBDA c : ~HasColumn(Val(vt.df), c))
                trows == Val(vt.df).rows
            IN IF tmiss # <<>>
               THEN {Failure(daily, tickets, ColumnNotFound(tickets.name, tmiss[1]))}
               ELSE IF dmiss # <<>>
               THEN {Failure(daily, tickets, ColumnNotFound(daily.name, dmiss[1]))}
               ELSE IF Unparseable(trows) # {}
               THEN {Failure(daily, tickets, ParseError(tickets.name))}
               ELSE {LET grouped == GroupByFirst(sorted)
                     IN [ok |-> TRUE, error |-> NoError,
                         daily |-> daily, tickets |-> tickets,
                         grouped |-> Some(grouped),
                         df |-> Some(Classify(
                                  LeftJoin(WithSiteCode(Val(vd.df).rows), grouped)))] :
                        sorted \in SortDescending(Spliced(trows))}

(***************************************************************************)
(* get_unique                                                              *)
(***************************************************************************)
\* group_by('SITE CODE').agg(pl.len()): one row per key, null included
SiteCounts(df) ==
    {[SITE_CODE |-> k,
      Alarm_Count |-> Cardinality({i \in DOMAIN df : df[i].SITE_CODE = k})] :
        k \in {df[i].SITE_CODE : i \in DOMAIN df}}

\* .sort('Alarm Count', descending=True): rows of equal count in any order
get_unique(df) ==
    LET rows == SiteCounts(df)
        n == Cardinality(rows)
    IN {s \in [1..n -> rows] :
            /\ \A i, j \in 1..n : i # j => s[i] # s[j]
            /\ \A i, j \in 1..n : i < j => s[i].Alarm_Count >= s[j].Alarm_Count}

(***************************************************************************)
(* main: one run of the page script.  daily and tickets are what the two   *)
(* file_uploader widgets return in this run (Null: no file).  page is what *)
(* the run rendered: call is the process_tickets call it made (Null: none),*)
(* shown the table it displayed and exported, tabular the summary.         *)
(***************************************************************************)
EmptySession == [k \in {} |-> <<>>]

Rendered(status, call, shown, tabular) ==
    [status |-> status, call |-> call, shown |-> shown, tabular |-> tabular]

\* as main, without the 'df_pandas' not in st.session_state test
main_uncached(daily, tickets) ==
    /\ daily_file' = daily
    /\ tickets_file' = tickets
    /\ IF daily = Null \/ tickets = Null
       THEN /\ session_state' = session_state
            /\ page' = Rendered("need_files", Null, Null, Null)
       ELSE \E o \in process_tickets(Val(daily), Val(tickets)) :
                IF o.ok
                THEN /\ session_state' = [k \in {"df_pandas"} |-> Val(o.df)]
                     /\ \E tabular \in get_unique(Val(o.df)) :
                            page' = Rendered("shown", Some(o), o.df, Some(tabular))
                ELSE /\ session_state' = session_state
                     /\ page' = Rendered("error", Some(o), Null, Null)

main(daily, tickets) ==
    /\ daily_file' = daily
    /\ tickets_file' = tickets
    /\ IF daily = Null \/ tickets = Null
       THEN /\ session_state' = session_state
            /\ page' = Rendered("need_files", Null, Null, Null)
       ELSE IF "df_pandas" \notin DOMAIN session_state
       THEN \E o \in process_tickets(Val(daily), Val(tickets)) :
                IF o.ok
                THEN /\ session_state' = [k \in {"df_pandas"} |-> Val(o.df)]
                     /\ \E tabular \in get_unique(Val(o.df)) :
                            page' = Rendered("shown", Some(o), o.df, Some(tabular))
                ELSE /\ session_state' = session_state
                     /\ page' = Rendered("error", Some(o), Null, Null)
       ELSE /\ session_state' = session_state
            /\ \E tabular \in get_unique(session_state["df_pandas"]) :
                   page' = Rendered("shown", Null,
                                    Some(session_state["df_pandas"]), Some(tabular))

\* any interaction that reruns the script with the same uploads
Rerun == main(daily_file, tickets_file)

(***************************************************************************)
(* Spec: the pipeline on every pair of files of the bounded sets.          *)
(***************************************************************************)
Init ==
    /\ daily_file \in {Some(f) : f \in DailyFiles}
    /\ tickets_file \in {Some(f) : f \in TicketsFiles}
    /\ session_state = EmptySession
    /\ page = Rendered("pending", Null, Null, Null)

Next == Rerun

Spec == Init /\ [][Next]_vars

(***************************************************************************)
(* SpecSession: one user session, with uploads and removals of files.      *)
(***************************************************************************)
AlarmRow(name, time, text) == [name |-> Some(name), time |-> time, text |-> text]

SessionDailyFiles ==
    {[name |-> "daily.csv", header |-> ExactHeader(DailyColumns),
      rows |-> <<[number |-> 1,
                  short_description |-> Some(<<"(", "I", ")", " ", "S", "1", " ", "d">>)],
                 [number |-> 2,
                  short_description |-> Some(<<"S", "1", " ", "d">>)]>>],
     [name |-> "daily.csv", header |-> ExactHeader(DailyColumns),
      rows |-> <<[number |-> 1,
                  short_description |-> Some(<<"(", "I", ")", "S", "2">>)]>>],
     [name |-> "daily.csv",
      header |-> [ExactHeader(DailyColumns) EXCEPT
                    !["short_description"] = Some("SHORT_DESCRIPTION")],
      rows |-> SampleDailyRows]}

SessionTicketsFiles ==
    {[name |-> "tickets.csv", header |-> ExactHeader(TicketsColumns),
      rows |-> SampleTicketsRows],
     [name |-> "tickets.csv", header |-> ExactHeader(TicketsColumns),
      rows |-> <<AlarmRow(<<"S", "2">>,
                          <<2024, "-", 1, "-", 2, " ", 9, ":", 0, ":", 0>>,
                          Some(<<"LINK", "FLAP", "DETECTED">>)),
                 AlarmRow(<<" ", "S", "1">>,
                          <<2024, "-", 1, "-", 1, " ", 10, ":", 0, ":", 0>>,
                          Null)>>],
     [name |-> "tickets.csv", header |-> ExactHeader(TicketsColumns),
      rows |-> <<AlarmRow(<<"S", "2">>,
                          <<2024, "/", 1, "/", 1, " ", 10, ":", 0, ":", 0>>,
                          Some(<<"LINK", "FLAP", "DETECTED">>))>>],
     [name |-> "tickets.csv", header |-> ExactHeader(TicketsColumns),
      rows |-> <<AlarmRow(<<" ", "S", "1">>,
                          <<2024, "-", 1, "-", 2, " ", 9, ":", 0, ":", 0>>,
                          Some(<<"LINK", "FLAP", "DETECTED">>))>>]}

UploadDaily == \E f \in SessionDailyFiles : main(Some(f), tickets_file)

UploadTickets == \E f \in SessionTicketsFiles : main(daily_file, Some(f))

RemoveDaily == daily_file # Null /\ main(Null, tickets_file)

RemoveTickets == tickets_file # Null /\ main(daily_file, Null)

InitSession ==
    /\ daily_file = Null
    /\ tickets_file = Null
    /\ session_state = EmptySession
    /\ page = Rendered("need_files", Null, Null, Null)

NextSession ==
    \/ UploadDaily
    \/ UploadTickets
    \/ RemoveDaily
    \/ RemoveTickets
    \/ Rerun

SpecSession == InitSession /\ [][NextSession]_vars

(***************************************************************************)
(* Properties.                                                             *)
(***************************************************************************)
Called == page.call # Null
Call == Val(page.call)
Succeeded == Called /\ Call.ok
Stored == "df_pandas" \in DOMAIN session_state

\* the alarm records of the tickets input whose trimmed Controlling Object
\* Name is the site code
AlarmsOf(tickets, site_code) ==
    {k \in DOMAIN tickets.rows :
        /\ site_code # Null
        /\ tickets.rows[k].name # Null
        /\ StripChars(Val(tickets.rows[k].name)) = Val(site_code)}

\* the header of the file has a column equal to col up to case and
\* surrounding whitespace
Covers(file, col) ==
    \E c \in DOMAIN file.header :
        file.header[c] # Null /\ Lower(Strip(Val(file.header[c]))) = Lower(col)

NotCovered(file, required) == {col \in required : ~Covers(file, col)}

IsCsvName(file) == EndsWithCsv(Lower(file.name))

Accepted(file, required) == IsCsvName(file) /\ NotCovered(file, required) = {}

DailyRequired == {"short_description", "ALARMS"}
TicketsRequired == {"Controlling Object Name", "Alarm Time", "Alarm Text"}

\* the error is the one validate_csv raises for this file
RejectionOf(err, file, required) ==
    /\ err.file = file.name
    /\ IF ~IsCsvName(file) THEN err.reason = "not_csv"
       ELSE /\ err.reason = "missing"
            /\ {err.columns[i] : i \in DOMAIN err.columns} = NotCovered(file, required)
            /\ Len(err.columns) = Cardinality(NotCovered(file, required))

RECURSIVE SumAlarmCount(_)
SumAlarmCount(tabular) ==
    IF tabular = <<>> THEN 0
    ELSE Head(tabular).Alarm_Count + SumAlarmCount(Tail(tabular))

\* YYYY-MM-DD HH:MM:SS+08:00 of a naive datetime read at UTC+08:00
FormatAtPlus8(dt) ==
    <<dt[1], "-", dt[2], "-", dt[3], " ", dt[4], ":", dt[5], ":", dt[6], "+08:00">>

\* C1: when process_tickets succeeds, the classified table has as many rows
\* as the daily-tickets input and every daily ticket appears exactly once.
C1_RowCountPreserved ==
    Succeeded =>
        LET df == Val(Call.df)
            rows == Call.daily.rows
        IN /\ Len(df) = Len(rows)
           /\ \A i \in DOMAIN rows :
                Cardinality({j \in DOMAIN df : df[j].number = rows[i].number}) = 1

\* a successful run with one ticket whose site has two alarm records and one
\* ticket whose site has none
C1_Witness ==
    /\ Succeeded
    /\ \E j \in DOMAIN Val(Call.df) :
          Cardinality(AlarmsOf(Call.tickets, Val(Call.df)[j].SITE_CODE)) = 2
    /\ \E j \in DOMAIN Val(Call.df) :
          AlarmsOf(Call.tickets, Val(Call.df)[j].SITE_CODE) = {}

\* C2: VALIDATION = 'NOT IN NMS' exactly when no alarm record has the
\* ticket's site code as its trimmed Controlling Object Name.
C2_NotInNmsIffNoAlarmRecord ==
    Succeeded =>
        \A j \in DOMAIN Val(Call.df) :
            LET row == Val(Call.df)[j]
            IN row.VALIDATION = "NOT IN NMS"
                    <=> AlarmsOf(Call.tickets, row.SITE_CODE) = {}

\* C3: a VALID row's resolved alarm text contains the diagnostic, and its
\* START TIME is the resolved alarm time formatted YYYY-MM-DD HH:MM:SS+08:00.
C3_ValidStartTimeAtPlus8 ==
    Succeeded =>
        \A j \in DOMAIN Val(Call.df) :
            LET row == Val(Call.df)[j]
            IN row.VALIDATION = "VALID" =>
                \E g \in Val(Call.grouped) :
                    /\ g.site_code = row.SITE_CODE
                    /\ g.Alarm_Text # Null
                    /\ Contains(Val(g.Alarm_Text), Diagnostic)
                    /\ row.START_TIME # Null
                    /\ Val(row.START_TIME) = FormatAtPlus8(Val(g.START_TIME))

\* C4: an INVALID row has no START TIME.
C4_InvalidHasNoStartTime ==
    Succeeded =>
        \A j \in DOMAIN Val(Call.df) :
            Val(Call.df)[j].VALIDATION = "INVALID"
                => Val(Call.df)[j].START_TIME = Null

\* an INVALID row whose site has a resolved alarm with a timestamp
C4_Witness ==
    /\ Succeeded
    /\ \E j \in DOMAIN Val(Call.df) :
          /\ Val(Call.df)[j].VALIDATION = "INVALID"
          /\ \E g \in Val(Call.grouped) :
                g.site_code = Val(Call.df)[j].SITE_CODE /\ g.START_TIME # Null

C6_ValidateCsv ==
    Called =>
        /\ ~Accepted(Call.daily, DailyRequired) =>
                ~Call.ok /\ RejectionOf(Call.error, Call.daily, DailyRequired)
        /\ Accepted(Call.daily, DailyRequired)
           /\ ~Accepted(Call.tickets, TicketsRequired) =>
                ~Call.ok /\ RejectionOf(Call.error, Call.tickets, TicketsRequired)
        /\ Accepted(Call.daily, DailyRequired)
           /\ Accepted(Call.tickets, TicketsRequired) =>
                Call.error.reason \notin {"not_csv", "missing"}

\* a tickets file headed CONTROLLING OBJECT NAME, under an upper-case file
\* name, that validate_csv accepted
C6_Witness ==
    /\ Called
    /\ Call.tickets.header["Controlling Object Name"] = Some("CONTROLLING OBJECT NAME")
    /\ Call.tickets.name = "TICKETS.CSV"
    /\ Call.error.reason \notin {"not_csv", "missing"}

\* C7: the Alarm Counts of get_unique add up to the number of classified
\* tickets whose SITE CODE is not absent.
C7_AlarmCountSum ==
    page.tabular # Null =>
        SumAlarmCount(Val(page.tabular))
            = Cardinality({j \in DOMAIN Val(page.shown) :
                             Val(page.shown)[j].SITE_CODE # Null})

C9_SessionCache ==
    [][/\ Stored =>
            /\ session_state' = session_state
            /\ page'.call = Null
            /\ daily_file' # Null /\ tickets_file' # Null =>
                    /\ page'.status = "shown"
                    /\ page'.shown = Some(session_state["df_pandas"])
                    /\ Val(page'.tabular) \in get_unique(session_state["df_pandas"])
       /\ ~Stored /\ Stored' =>
            /\ page'.call # Null
            /\ Val(page'.call).ok
            /\ session_state'["df_pandas"] = Val(Val(page'.call).df)
       /\ page'.call # Null /\ ~Val(page'.call).ok => ~Stored'
       /\ ~Stored /\ daily_file' # Null /\ tickets_file' # Null =>
            /\ page'.call # Null
            /\ Val(page'.call).daily = Val(daily_file')
            /\ Val(page'.call).tickets = Val(tickets_file')]_vars

\* the stored result is shown, without a call, while the tickets upload is a
\* file whose Alarm Time does not parse
C9_Witness ==
    /\ Stored
    /\ page.status = "shown"
    /\ page.call = Null
    /\ page.shown = Some(session_state["df_pandas"])
    /\ tickets_file # Null
    /\ \E k \in DOMAIN Val(tickets_file).rows :
          ~MatchesFormat(Val(tickets_file).rows[k].time)

\* C10: when validate_csv accepts both files and every Alarm Time parses,
\* process_tickets returns a classified table.
C10_AcceptedFilesAreProcessed ==
    Called
    /\ Accepted(Call.daily, DailyRequired)
    /\ Accepted(Call.tickets, TicketsRequired)
    /\ (\A k \in DOMAIN Call.tickets.rows :
            MatchesFormat(Call.tickets.rows[k].time))
        => Call.ok

====
